---- MODULE Spec2Model ----
(***************************************************************************)
(* The controller of wam-rust (src/src/gui.rs, `Wam`) as a state machine:  *)
(* one action per AppMessage handled by Wam::update, the view's buttons as *)
(* the guards of the user events, and the asynchronous tasks dispatched    *)
(* with Command::perform as a set of pending tasks whose results re-enter  *)
(* the controller one at a time.                                           *)
(*                                                                         *)
(* crate::common (WebAppLauncher, move_icon, find_icons, get_webapps, ...) *)
(* is not part of src/: its operations are modelled from the               *)
(* specification's contract (sections 3, 4.2, 4.3, 6).                     *)
(*                                                                         *)
(* Strings are sequences of tokens, so that starts_with / ends_with /      *)
(* replace / format! are computed, not assumed:                            *)
(*   a title  is a sequence of characters   <<"a", " ", "b">>              *)
(*   a url    is <<scheme?, host>>          <<"https://", "a.com">>        *)
(*   a path   is <<root, name..., ext>>     <<"http", "r", ".png">>        *)
(***************************************************************************)
EXTENDS Integers, Sequences, FiniteSets, TLC

\* ------------------------------------------------------------------ bounds

\* Fresh codenames handed out by WebAppLauncher::new (launchers ever created).
MaxLaunchers == 2
\* Icon searches ever started (SearchFavicon / PerformIconSearch).
MaxSearches == 2
\* Events handled by Wam::update in one run.
MaxEvents == 10

\* ------------------------------------------------------------------ strings

Empty == << >>

is_empty(s) == Len(s) = 0

starts_with(s, tok) == Len(s) > 0 /\ s[1] = tok

ends_with(s, tok) == Len(s) > 0 /\ s[Len(s)] = tok

\* String::replace(' ', "")
remove_spaces(s) == SelectSeq(s, LAMBDA c : c # " ")

\* format!("{}{}", prefix, url)
format_prefix(prefix, url) == <<prefix>> \o url

Schemes == {"http://", "https://"}

Hosts == {"a.com"}

\* Url::parse(url).is_ok() for the urls of the model: an absolute url is a
\* scheme followed by a host.
url_parses(url) == Len(url) = 2 /\ url[1] \in Schemes /\ url[2] \in Hosts

\* ------------------------------------------------------------------ inputs

TitleInputs == {Empty, <<"a">>, <<"a", " ", "b">>}

UrlInputs == {Empty, <<"a.com">>, <<"https://", "a.com">>}

ArgumentInputs == {Empty, <<"--x">>}

SearchInputs == {Empty, <<"a">>}

\* The view's pick_list of categories.
categories == <<"Web", "Accesories", "Education", "Games", "Graphics",
                "Internet", "Office", "Programming", "Sound & Video">>

\* The categories the model picks (the others behave alike).
CategoryInputs == {categories[1], categories[2]}

\* Candidate icon sources a search can return: a remote one (declared by the
\* page) and a local one (the named-icon lookup).
RemoteIcon == <<"http", "r", ".png">>

LocalIcon == <<"/usr/", "l", ".svg">>

\* What find_icons can return (the network decides).
FindResults == {Empty, <<LocalIcon>>, <<RemoteIcon, LocalIcon>>}

StoreRoot == "store/"

IsRemote(path) == starts_with(path, "http")

InStore(path) == starts_with(path, StoreRoot)

IsSvg(path) == ends_with(path, ".svg")

\* ------------------------------------------------------------------ state

VARIABLES
    \* struct Wam
    icons,            \* Option<Vec<Icon>>, always Some: the sequence of icons
    app_title,
    app_url,
    app_icon,
    app_parameters,
    app_category,
    app_browser,
    app_navbar,
    app_incognito,
    app_isolated,
    show_modal,
    icon_searching,
    selected_icon,    \* Option<Icon>: {} or {icon}
    app_browsers,
    edit_mode,
    launcher,         \* Option<Box<WebAppLauncher>>: {} or {launcher}
    \* the environment
    webapps,          \* the persisted-entry store: a set of launcher entries
    icon_store,       \* the private icon store: file path -> origin of its bytes
    pending,          \* tasks dispatched with Command::perform, not yet delivered
    panicked,         \* an expect()/unwrap()/index out of range aborted the program
    \* bookkeeping
    next_code,        \* the next fresh codename
    searches,         \* icon searches started so far
    events,           \* events handled so far
    last              \* what the last handled event did

wam == <<icons, app_title, app_url, app_icon, app_parameters, app_category,
         app_browser, app_navbar, app_incognito, app_isolated, show_modal,
         icon_searching, selected_icon, app_browsers, edit_mode, launcher>>

env == <<webapps, icon_store, pending, panicked>>

vars == <<wam, env, next_code, searches, events, last>>

\* struct Icon { icon, path }; search is the number of the search whose batch
\* produced it (0: not from a search).
Icon_new(path, search) == [path |-> path, search |-> search]

\* ------------------------------------------------------------------ crate::common

\* The browsers the registry knows, in priority order, with their BrowserType.
KnownBrowsers == <<"firefox", "chromium">>

BrowserType(name) == IF name = "firefox" THEN "Firefox" ELSE "Chromium"

\* Browser::web_browser(name): Some(browser) when it resolves, else None.
web_browser(name) == {b \in {app_browsers[i] : i \in 1..Len(app_browsers)} : b = name}

\* WebAppLauncher::new: the codename is the one supplied, or a fresh one.
WebAppLauncher_new(name, codename, url, icon, category, browser, parameters, isolated, navbar, incognito) ==
    [codename          |-> IF codename = {} THEN next_code
                           ELSE CHOOSE c \in codename : TRUE,
     name              |-> name,
     url               |-> url,
     icon              |-> icon,
     category          |-> category,
     web_browser       |-> browser,
     custom_parameters |-> parameters,
     isolate_profile   |-> isolated,
     navbar            |-> navbar,
     is_incognito      |-> incognito]

\* WebAppLauncher.is_valid: the name is non-empty, the url parses as an absolute
\* url and the browser resolves.
is_valid(l) ==
    /\ ~is_empty(l.name)
    /\ url_parses(l.url)
    /\ web_browser(l.web_browser) # {}

\* WebAppLauncher::create: the entry store after create(l). An invalid launcher
\* is rejected; a valid one overwrites the entry of the same codename.
create(l, store) ==
    IF is_valid(l)
    THEN {e \in store : e.codename # l.codename} \cup {l}
    ELSE store

\* WebAppLauncher::delete: removes the entry of the codename and the icon file
\* at icon_path; the absence of either is tolerated.
delete_entry(l, store) == {e \in store : e.codename # l.codename}

delete_icon(l, files) == [p \in DOMAIN files \ {l.icon} |-> files[p]]

\* get_webapps(): the launchers parsed back from the entry store, the Ok items
\* of the listing.
get_webapps == {e \in webapps : "name" \in DOMAIN e}

\* get_webapps(): the Err items of the listing, the entries that do not parse
\* back into a launcher.
get_webapps_err == webapps \ get_webapps

\* The file extension of an icon source.
Extension(path) == IF is_empty(path) THEN Empty ELSE <<path[Len(path)]>>

\* move_icon: the path in the icon store, named from the owner's name and the
\* source's extension.
SavedPath(path, owner_name) == <<StoreRoot>> \o owner_name \o Extension(path)

\* Can the bytes of `path` be read now: a remote source depends on the
\* network (decided by the caller), a file of the store must exist.
Readable(path, files) ==
    /\ ~is_empty(path)
    /\ (InStore(path) => path \in DOMAIN files)

\* The origin of the bytes at `path`.
Origin(path, files) == IF InStore(path) THEN files[path] ELSE path

\* move_icon(path, owner_name): the icon store afterwards, the file of the
\* owner overwritten.
move_icon(path, owner_name, files) ==
    LET saved == SavedPath(path, owner_name)
    IN  [p \in DOMAIN files \cup {saved} |->
            IF p = saved THEN Origin(path, files) ELSE files[p]]

\* get_icon_name_from_url(url): the identifying label of the url's host.
get_icon_name_from_url(url) ==
    IF ends_with(url, "a.com") THEN <<"a">> ELSE Empty

\* ------------------------------------------------------------------ tasks

\* Command::perform(find_icons(token, Some(url)), FoundIcons)
FindTask(search, token, url) ==
    [kind |-> "find", search |-> search, token |-> token, url |-> url]

\* Command::perform(svg_from_memory(path) / image_from_memory(path), ...):
\* then = "push" delivers PushIcon, then = "set" delivers SetIcon, and an Err
\* delivers ErrorLoadingIcon.
LoadTask(path, search, then) ==
    [kind |-> "load", path |-> path, search |-> search, then |-> then,
     svg |-> IsSvg(path)]

\* Command::perform(svg_from_memory(saved) / image_from_memory(saved),
\*                  |result| SelectIcon(result.unwrap()))
ReloadTask(saved, search) ==
    [kind |-> "reload", path |-> saved, search |-> search, svg |-> IsSvg(saved)]

Tasks(kind) == {t \in pending : t.kind = kind}

\* What the last handled event did: the launcher handed to
\* WebAppLauncher::new, whether create() was called on it, the launchers
\* delete() was called on, whether that delete() found its entry absent, the
\* rows of the installed list the view has drawn.
Did(ev, built, created, deleted) ==
    [ev |-> ev, built |-> built, created |-> created, deleted |-> deleted,
     stale |-> FALSE, rows |-> {}]

Ev(ev) == Did(ev, {}, FALSE, {})

\* ------------------------------------------------------------------ Wam::new

\* get_supported_browsers(): what is installed.
Installed == {Empty, KnownBrowsers}

Init ==
    /\ app_browsers \in Installed
    /\ panicked = is_empty(app_browsers)       \* &browsers[0]
    /\ app_browser = IF is_empty(app_browsers) THEN "" ELSE app_browsers[1]
    /\ icons = Empty
    /\ app_title = Empty
    /\ app_url = Empty
    /\ app_icon = Empty
    /\ app_parameters = Empty
    /\ app_category = "Web"
    /\ app_navbar = FALSE
    /\ app_incognito = FALSE
    /\ app_isolated = TRUE
    /\ show_modal = FALSE
    /\ icon_searching = Empty
    /\ selected_icon = {}
    /\ edit_mode = FALSE
    /\ launcher = {}
    /\ webapps = {}
    /\ icon_store = << >>
    /\ pending = {}
    /\ next_code = 1
    /\ searches = 0
    /\ events = 0
    /\ last = Ev("new")

\* Entries found in the persisted-entry store at start-up, written by an
\* earlier run or by hand: a well-formed launcher, a launcher whose url has no
\* scheme, and an entry that does not parse back into a launcher.
StoredLauncher(codename, url) ==
    [codename          |-> codename,
     name              |-> <<"a">>,
     url               |-> url,
     icon              |-> LocalIcon,
     category          |-> "Web",
     web_browser       |-> "firefox",
     custom_parameters |-> Empty,
     isolate_profile   |-> TRUE,
     navbar            |-> FALSE,
     is_incognito      |-> FALSE]

MalformedEntry(codename) == [codename |-> codename, malformed |-> TRUE]

StoredEntries ==
    {StoredLauncher(7, <<"https://", "a.com">>), StoredLauncher(8, <<"a.com">>),
     MalformedEntry(9)}

\* Wam::new over an entry store that already holds entries.
InitList ==
    /\ app_browsers \in Installed
    /\ panicked = is_empty(app_browsers)       \* &browsers[0]
    /\ app_browser = IF is_empty(app_browsers) THEN "" ELSE app_browsers[1]
    /\ icons = Empty
    /\ app_title = Empty
    /\ app_url = Empty
    /\ app_icon = Empty
    /\ app_parameters = Empty
    /\ app_category = "Web"
    /\ app_navbar = FALSE
    /\ app_incognito = FALSE
    /\ app_isolated = TRUE
    /\ show_modal = FALSE
    /\ icon_searching = Empty
    /\ selected_icon = {}
    /\ edit_mode = FALSE
    /\ launcher = {}
    /\ webapps \in SUBSET StoredEntries
    /\ icon_store = << >>
    /\ pending = {}
    /\ next_code = 1
    /\ searches = 0
    /\ events = 0
    /\ last = Ev("new")

\* ------------------------------------------------------------------ Wam::update

\* update() handles one more event of a program that has not aborted.
Running ==
    /\ ~panicked
    /\ events < MaxEvents
    /\ events' = events + 1

Title(text) ==
    /\ Running
    /\ app_title' = text
    /\ last' = Ev("Title")
    /\ UNCHANGED <<icons, app_url, app_icon, app_parameters, app_category,
                   app_browser, app_navbar, app_incognito, app_isolated,
                   show_modal, icon_searching, selected_icon, app_browsers,
                   edit_mode, launcher, env, next_code, searches>>

\* Url with a favicon search started as the url is typed.
Url_searching(url) ==
    /\ Running
    /\ app_url' = url
    /\ pending' = pending \cup {FindTask(searches, get_icon_name_from_url(url), url)}
    /\ last' = Ev("Url")
    /\ UNCHANGED <<icons, app_title, app_icon, app_parameters, app_category,
                   app_browser, app_navbar, app_incognito, app_isolated,
                   show_modal, icon_searching, selected_icon, app_browsers,
                   edit_mode, launcher, webapps, icon_store, panicked,
                   next_code, searches>>

Url(url) ==
    /\ Running
    /\ app_url' = url
    /\ last' = Ev("Url")
    /\ UNCHANGED <<icons, app_title, app_icon, app_parameters, app_category,
                   app_browser, app_navbar, app_incognito, app_isolated,
                   show_modal, icon_searching, selected_icon, app_browsers,
                   edit_mode, launcher, env, next_code, searches>>

Arguments(args) ==
    /\ Running
    /\ app_parameters' = args
    /\ last' = Ev("Arguments")
    /\ UNCHANGED <<icons, app_title, app_url, app_icon, app_category,
                   app_browser, app_navbar, app_incognito, app_isolated,
                   show_modal, icon_searching, selected_icon, app_browsers,
                   edit_mode, launcher, env, next_code, searches>>

\* A load task succeeded and its PushIcon(icon) is handled. moved: whether
\* move_icon succeeds (the download of a remote icon may fail).
PushIcon(t, moved) ==
    LET icon == Icon_new(t.path, t.search)
        owner_name == remove_spaces(app_title)
    IN  /\ Running
        /\ t \in Tasks("load") /\ t.then = "push"
        /\ Readable(t.path, icon_store)
        /\ pending' = pending \ {t}
        /\ last' = Ev("PushIcon")
        /\ IF is_empty(icons)
           THEN /\ selected_icon' = {icon}
                /\ IF ~IsRemote(icon.path)
                   THEN /\ app_icon' = icon.path
                        /\ icons' = Append(icons, icon)
                        /\ UNCHANGED <<icon_store, panicked>>
                   ELSE IF moved
                   THEN /\ app_icon' = SavedPath(icon.path, owner_name)
                        /\ icon_store' = move_icon(icon.path, owner_name, icon_store)
                        /\ icons' = Append(icons, icon)
                        /\ UNCHANGED panicked
                   ELSE /\ panicked' = TRUE    \* .expect("cant download icon")
                        /\ UNCHANGED <<app_icon, icon_store, icons>>
           ELSE /\ moved                      \* move_icon is not called
                /\ icons' = Append(icons, icon)
                /\ UNCHANGED <<selected_icon, app_icon, icon_store, panicked>>
        /\ UNCHANGED <<app_title, app_url, app_parameters, app_category,
                       app_browser, app_navbar, app_incognito, app_isolated,
                       show_modal, icon_searching, app_browsers, edit_mode,
                       launcher, webapps, next_code, searches>>

\* find_icons returned `result`: one load task per candidate.
FoundIcons(t, result) ==
    /\ Running
    /\ t \in Tasks("find")
    /\ pending' = (pending \ {t}) \cup
                  {LoadTask(result[i], t.search, "push") : i \in 1..Len(result)}
    /\ last' = Ev("FoundIcons")
    /\ UNCHANGED <<wam, webapps, icon_store, panicked, next_code, searches>>

\* A load task failed: ErrorLoadingIcon changes nothing.
ErrorLoadingIcon(t) ==
    /\ Running
    /\ t \in Tasks("load")
    /\ pending' = pending \ {t}
    /\ last' = Ev("ErrorLoadingIcon")
    /\ UNCHANGED <<wam, webapps, icon_store, panicked, next_code, searches>>

\* Buttons::SearchFavicon
SearchFavicon ==
    /\ Running
    /\ icons' = Empty
    /\ last' = Ev("SearchFavicon")
    /\ IF ~is_empty(app_url)
       THEN /\ searches < MaxSearches
            /\ app_url' = IF starts_with(app_url, "http://")
                             \/ starts_with(app_url, "https://")
                          THEN app_url
                          ELSE format_prefix("https://", app_url)
            /\ searches' = searches + 1
            /\ pending' = pending \cup
                   {FindTask(searches + 1, get_icon_name_from_url(app_url'),
                             app_url')}
       ELSE UNCHANGED <<app_url, searches, pending>>
    /\ UNCHANGED <<app_title, app_icon, app_parameters, app_category,
                   app_browser, app_navbar, app_incognito, app_isolated,
                   show_modal, icon_searching, selected_icon, app_browsers,
                   edit_mode, launcher, webapps, icon_store, panicked,
                   next_code>>

\* Buttons::Favicon(path): a button of the icon picker (the modal's icons).
Favicon(ico) ==
    /\ Running
    /\ show_modal
    /\ ico \in {icons[i] : i \in 1..Len(icons)}
    /\ pending' = pending \cup {LoadTask(ico.path, ico.search, "set")}
    /\ last' = Ev("Favicon")
    /\ UNCHANGED <<wam, webapps, icon_store, panicked, next_code, searches>>

\* Buttons::Edit(launcher): a row of the installed list.
Edit(l) ==
    /\ Running
    /\ l \in get_webapps
    /\ edit_mode' = TRUE
    /\ launcher' = {l}
    /\ app_title' = l.name
    /\ app_url' = l.url
    /\ app_icon' = l.icon
    /\ app_parameters' = l.custom_parameters
    /\ app_category' = l.category
    /\ IF web_browser(l.web_browser) # {}
       THEN /\ app_browser' = CHOOSE b \in web_browser(l.web_browser) : TRUE
            /\ app_navbar' = l.navbar
            /\ app_incognito' = l.is_incognito
            /\ pending' = pending \cup {LoadTask(l.icon, 0, "set")}
            /\ UNCHANGED panicked
       ELSE /\ panicked' = TRUE                \* .expect("browser not found")
            /\ UNCHANGED <<app_browser, app_navbar, app_incognito, pending>>
    /\ last' = Ev("Edit")
    /\ UNCHANGED <<icons, app_isolated, show_modal, icon_searching,
                   selected_icon, app_browsers, webapps, icon_store,
                   next_code, searches>>

\* The launchers whose Delete button can be pressed: the rows of the installed
\* list, and the row of the launcher just deleted (a second press handled
\* before the list is drawn again).
Deletable ==
    get_webapps \cup (IF last.ev = "Delete" THEN last.deleted ELSE {})

\* Delete_entries with the call of delete() left out.
Delete_entries_kept(l) == webapps

\* Buttons::Delete: `let _ = launcher.delete()`, the entry store afterwards.
Delete_entries(l) == delete_entry(l, webapps)

\* Buttons::Delete(launcher): a row of the installed list.
Delete(l) ==
    /\ Running
    /\ l \in Deletable
    /\ webapps' = Delete_entries(l)
    /\ icon_store' = delete_icon(l, icon_store)
    /\ last' = [Did("Delete", {}, FALSE, {l}) EXCEPT !.stale = l \notin get_webapps]
    /\ UNCHANGED <<wam, pending, panicked, next_code, searches>>

\* Buttons::Navbar(selected): the toggler shown for the Firefox family.
Navbar(selected) ==
    /\ Running
    /\ BrowserType(app_browser) = "Firefox"
    /\ app_navbar' = selected
    /\ last' = Ev("Navbar")
    /\ UNCHANGED <<icons, app_title, app_url, app_icon, app_parameters,
                   app_category, app_browser, app_incognito, app_isolated,
                   show_modal, icon_searching, selected_icon, app_browsers,
                   edit_mode, launcher, env, next_code, searches>>

Incognito(selected) ==
    /\ Running
    /\ app_incognito' = selected
    /\ last' = Ev("Incognito")
    /\ UNCHANGED <<icons, app_title, app_url, app_icon, app_parameters,
                   app_category, app_browser, app_navbar, app_isolated,
                   show_modal, icon_searching, selected_icon, app_browsers,
                   edit_mode, launcher, env, next_code, searches>>

\* Buttons::IsolatedProfile(selected): the toggler shown for the other browsers.
IsolatedProfile(selected) ==
    /\ Running
    /\ BrowserType(app_browser) # "Firefox"
    /\ app_isolated' = selected
    /\ last' = Ev("IsolatedProfile")
    /\ UNCHANGED <<icons, app_title, app_url, app_icon, app_parameters,
                   app_category, app_browser, app_navbar, app_incognito,
                   show_modal, icon_searching, selected_icon, app_browsers,
                   edit_mode, launcher, env, next_code, searches>>

\* AppMessage::Browser(browser): the pick_list of app_browsers.
Browser(browser) ==
    /\ Running
    /\ browser \in {app_browsers[i] : i \in 1..Len(app_browsers)}
    /\ app_browser' = browser
    /\ last' = Ev("Browser")
    /\ UNCHANGED <<icons, app_title, app_url, app_icon, app_parameters,
                   app_category, app_navbar, app_incognito, app_isolated,
                   show_modal, icon_searching, selected_icon, app_browsers,
                   edit_mode, launcher, env, next_code, searches>>

\* Result_codename with the edited launcher's codename forgotten (None).
Result_codename_none == {}

\* AppMessage::Result, the codename handed to WebAppLauncher::new:
\* Some(launcher.codename) of the launcher being edited, else None.
Result_codename == {l.codename : l \in launcher}

\* Result_creates with the test negated.
Result_creates_negated(built) == ~is_valid(built)

\* Result_creates with the test dropped.
Result_creates_always(built) == TRUE

\* AppMessage::Result: `if launcher.is_valid { launcher.create() }`
Result_creates(built) == is_valid(built)

\* Result_launcher with the slot reset once Done is handled.
Result_launcher_reset == {}

\* AppMessage::Result: the handler never assigns self.launcher, the edited
\* launcher stays in its slot.
Result_launcher == launcher

\* AppMessage::Result: the Done button.
Result ==
    LET edited == launcher
        built == WebAppLauncher_new(app_title, Result_codename, app_url,
                                    app_icon, app_category, app_browser,
                                    app_parameters, app_isolated, app_navbar,
                                    app_incognito)
        \* let _ = launcher.delete(), when a launcher is being edited
        store == IF edited = {} THEN webapps
                 ELSE delete_entry(CHOOSE l \in edited : TRUE, webapps)
        files == IF edited = {} THEN icon_store
                 ELSE delete_icon(CHOOSE l \in edited : TRUE, icon_store)
    IN  /\ Running
        /\ Result_codename = {} => next_code <= MaxLaunchers
        /\ icon_store' = files
        /\ webapps' = IF Result_creates(built) THEN create(built, store)
                      ELSE store
        /\ next_code' = IF built.codename = next_code /\ built \in webapps'
                        THEN next_code + 1 ELSE next_code
        /\ last' = Did("Result", {built}, Result_creates(built), edited)
        /\ launcher' = Result_launcher
        /\ UNCHANGED <<icons, app_title, app_url, app_icon, app_parameters,
                       app_category, app_browser, app_navbar, app_incognito,
                       app_isolated, show_modal, icon_searching, selected_icon,
                       app_browsers, edit_mode, pending, panicked, searches>>

Category(category) ==
    /\ Running
    /\ app_category' = category
    /\ last' = Ev("Category")
    /\ UNCHANGED <<icons, app_title, app_url, app_icon, app_parameters,
                   app_browser, app_navbar, app_incognito, app_isolated,
                   show_modal, icon_searching, selected_icon, app_browsers,
                   edit_mode, launcher, env, next_code, searches>>

OpenModal ==
    /\ Running
    /\ show_modal' = TRUE
    /\ last' = Ev("OpenModal")
    /\ UNCHANGED <<icons, app_title, app_url, app_icon, app_parameters,
                   app_category, app_browser, app_navbar, app_incognito,
                   app_isolated, icon_searching, selected_icon, app_browsers,
                   edit_mode, launcher, env, next_code, searches>>

\* The modal's on_close, backdrop and on_esc.
CloseModal ==
    /\ Running
    /\ show_modal
    /\ show_modal' = FALSE
    /\ last' = Ev("CloseModal")
    /\ UNCHANGED <<icons, app_title, app_url, app_icon, app_parameters,
                   app_category, app_browser, app_navbar, app_incognito,
                   app_isolated, icon_searching, selected_icon, app_browsers,
                   edit_mode, launcher, env, next_code, searches>>

\* The modal's Cancel button.
CancelButtonPressed ==
    /\ Running
    /\ show_modal
    /\ show_modal' = FALSE
    /\ last' = Ev("CancelButtonPressed")
    /\ UNCHANGED <<icons, app_title, app_url, app_icon, app_parameters,
                   app_category, app_browser, app_navbar, app_incognito,
                   app_isolated, icon_searching, selected_icon, app_browsers,
                   edit_mode, launcher, env, next_code, searches>>

\* A load task succeeded and its SetIcon(icon) is handled. moved: whether
\* move_icon succeeds.
SetIcon(t, moved) ==
    LET saved == SavedPath(t.path, app_title)
    IN  /\ Running
        /\ t \in Tasks("load") /\ t.then = "set"
        /\ Readable(t.path, icon_store)
        /\ show_modal' = FALSE
        /\ last' = Ev("SetIcon")
        /\ IF moved
           THEN /\ app_icon' = saved
                /\ icon_store' = move_icon(t.path, app_title, icon_store)
                /\ pending' = (pending \ {t}) \cup {ReloadTask(saved, t.search)}
           ELSE /\ IsRemote(t.path)            \* the download failed
                /\ pending' = pending \ {t}
                /\ UNCHANGED <<app_icon, icon_store>>
        /\ UNCHANGED <<icons, app_title, app_url, app_parameters, app_category,
                       app_browser, app_navbar, app_incognito, app_isolated,
                       icon_searching, selected_icon, app_browsers, edit_mode,
                       launcher, webapps, panicked, next_code, searches>>

\* The reload of the saved icon is delivered: SelectIcon(result.unwrap()).
SelectIcon(t) ==
    /\ Running
    /\ t \in Tasks("reload")
    /\ pending' = pending \ {t}
    /\ last' = Ev("SelectIcon")
    /\ IF Readable(t.path, icon_store)
       THEN /\ selected_icon' = {Icon_new(t.path, t.search)}
            /\ UNCHANGED panicked
       ELSE /\ panicked' = TRUE                \* result.unwrap()
            /\ UNCHANGED selected_icon
    /\ UNCHANGED <<icons, app_title, app_url, app_icon, app_parameters,
                   app_category, app_browser, app_navbar, app_incognito,
                   app_isolated, show_modal, icon_searching, app_browsers,
                   edit_mode, launcher, webapps, icon_store, next_code,
                   searches>>

\* The search field of the icon picker.
CustomIconsSearch(field) ==
    /\ Running
    /\ show_modal
    /\ icon_searching' = field
    /\ last' = Ev("CustomIconsSearch")
    /\ UNCHANGED <<icons, app_title, app_url, app_icon, app_parameters,
                   app_category, app_browser, app_navbar, app_incognito,
                   app_isolated, show_modal, selected_icon, app_browsers,
                   edit_mode, launcher, env, next_code, searches>>

\* The search field's on_submit.
PerformIconSearch ==
    /\ Running
    /\ show_modal
    /\ icons' = Empty
    /\ last' = Ev("PerformIconSearch")
    /\ IF ~is_empty(icon_searching)
       THEN /\ searches < MaxSearches
            /\ searches' = searches + 1
            /\ pending' = pending \cup
                   {FindTask(searches + 1, icon_searching, app_url)}
       ELSE UNCHANGED <<searches, pending>>
    /\ UNCHANGED <<app_title, app_url, app_icon, app_parameters, app_category,
                   app_browser, app_navbar, app_incognito, app_isolated,
                   show_modal, icon_searching, selected_icon, app_browsers,
                   edit_mode, launcher, webapps, icon_store, panicked,
                   next_code>>

\* ------------------------------------------------------------------ Wam::view

\* The installed list of Wam::view: one row (Edit, Delete, name, host) per Ok
\* item of get_webapps(), an Err item is logged and skipped; the host of a
\* row is Url::parse(&data.url).expect("cant parse url").host().unwrap().
View ==
    /\ Running
    /\ panicked' = \E data \in get_webapps : ~url_parses(data.url)
    /\ last' = [Ev("view") EXCEPT !.rows = IF panicked' THEN {} ELSE get_webapps]
    /\ UNCHANGED <<wam, webapps, icon_store, pending, next_code, searches>>

\* ------------------------------------------------------------------ specification

\* The launcher lifecycle and the icon pipeline: the title and the url, the
\* searches and their results, the icon picker, Edit, Delete and Done.
Next ==
    \/ \E text \in TitleInputs : Title(text)
    \/ \E url \in UrlInputs : Url(url)
    \/ \E t \in pending, moved \in BOOLEAN : PushIcon(t, moved)
    \/ \E t \in pending, result \in FindResults : FoundIcons(t, result)
    \/ \E t \in pending : ErrorLoadingIcon(t)
    \/ SearchFavicon
    \/ \E ico \in {icons[i] : i \in 1..Len(icons)} : Favicon(ico)
    \/ \E l \in webapps : Edit(l)
    \/ \E l \in Deletable : Delete(l)
    \/ Result
    \/ OpenModal
    \/ CloseModal
    \/ CancelButtonPressed
    \/ \E t \in pending, moved \in BOOLEAN : SetIcon(t, moved)
    \/ \E t \in pending : SelectIcon(t)
    \/ \E field \in SearchInputs : CustomIconsSearch(field)
    \/ PerformIconSearch

Spec == Init /\ [][Next]_vars

\* The form and the launcher lifecycle: every field of the form, Edit, Delete
\* and Done; no icon search is started, so no launcher has an icon and the
\* icon task Edit dispatches can only fail.
NextForm ==
    \/ \E text \in TitleInputs : Title(text)
    \/ \E url \in UrlInputs : Url(url)
    \/ \E args \in ArgumentInputs : Arguments(args)
    \/ \E category \in CategoryInputs : Category(category)
    \/ \E browser \in {KnownBrowsers[i] : i \in 1..Len(KnownBrowsers)} :
          Browser(browser)
    \/ \E selected \in BOOLEAN : Navbar(selected)
    \/ \E selected \in BOOLEAN : Incognito(selected)
    \/ \E selected \in BOOLEAN : IsolatedProfile(selected)
    \/ \E l \in webapps : Edit(l)
    \/ \E l \in Deletable : Delete(l)
    \/ Result
    \/ \E t \in pending : ErrorLoadingIcon(t)

SpecForm == Init /\ [][NextForm]_vars

\* The installed list: the view over an entry store that holds entries at
\* start-up, with the title, Edit, Delete, Done and the icon tasks Edit
\* dispatches.
NextList ==
    \/ View
    \/ \E text \in TitleInputs : Title(text)
    \/ \E l \in webapps : Edit(l)
    \/ \E l \in Deletable : Delete(l)
    \/ Result
    \/ \E t \in pending : ErrorLoadingIcon(t)
    \/ \E t \in pending, moved \in BOOLEAN : SetIcon(t, moved)
    \/ \E t \in pending : SelectIcon(t)

SpecList == InitList /\ [][NextList]_vars

\* Wam::new over an entry store that holds every stored entry.
InitFields == InitList /\ webapps = StoredEntries

\* The form: every field of the form and the search field of the icon
\* picker, over an entry store that holds entries at start-up.
NextFields ==
    \/ \E text \in TitleInputs : Title(text)
    \/ \E url \in UrlInputs : Url(url)
    \/ \E args \in ArgumentInputs : Arguments(args)
    \/ \E category \in CategoryInputs : Category(category)
    \/ \E browser \in {KnownBrowsers[i] : i \in 1..Len(KnownBrowsers)} :
          Browser(browser)
    \/ \E selected \in BOOLEAN : Navbar(selected)
    \/ \E selected \in BOOLEAN : Incognito(selected)
    \/ \E selected \in BOOLEAN : IsolatedProfile(selected)
    \/ OpenModal
    \/ \E field \in SearchInputs : CustomIconsSearch(field)

SpecFields == InitFields /\ [][NextFields]_vars

\* ------------------------------------------------------------------ properties

\* The entries of the installed list that carry `codename`.
Listed(codename) == {e \in get_webapps : e.codename = codename}

\* The files of the icon store that belong to the owner `title`: named from
\* the title, whatever the extension and the spaces.
OwnerFiles(title, files) ==
    {p \in DOMAIN files :
        remove_spaces(SubSeq(p, 2, Len(p) - 1)) = remove_spaces(title)}

HasScheme(url) == starts_with(url, "http://") \/ starts_with(url, "https://")

\* C1: when Done is handled with a valid form (non-empty title, url that
\* parses, resolvable browser) and no launcher is being edited, the installed
\* list afterwards holds exactly one entry with the created launcher's
\* codename, and it carries the launcher's name and url.
C1_CreateThenList ==
    (last.ev = "Result" /\ last.deleted = {}) =>
        \A b \in last.built :
            (~is_empty(b.name) /\ url_parses(b.url)
                /\ web_browser(b.web_browser) # {}) =>
                /\ Cardinality(Listed(b.codename)) = 1
                /\ \A e \in Listed(b.codename) :
                      e.name = b.name /\ e.url = b.url

\* A second launcher has just been created by Done.
C1_Witness ==
    /\ last.ev = "Result" /\ last.deleted = {} /\ last.created
    /\ Cardinality(get_webapps) = 2
    /\ \A b \in last.built : Cardinality(Listed(b.codename)) = 1

C3_StaleResultsDiscarded ==
    \A i \in 1..Len(icons) : icons[i].search = searches

\* C4: a Done handled with an invalid launcher leaves the entry store and the
\* icon store unchanged, whether or not a launcher is being edited.
C4_DoneBlockedWhenInvalid ==
    [][(last'.ev = "Result" /\ \E b \in last'.built : ~is_valid(b))
          => (webapps' = webapps /\ icon_store' = icon_store)]_vars

\* C5: create() is called only on a valid launcher, and no entry of the
\* store is an invalid launcher.
C5_OnlyValidPersisted ==
    /\ last.created => \A b \in last.built : is_valid(b)
    /\ \A e \in get_webapps : is_valid(e)

\* A Done with an invalid form has just been handled, beside a stored entry.
C5_Witness ==
    /\ last.ev = "Result" /\ ~last.created
    /\ \E b \in last.built : ~is_valid(b)
    /\ get_webapps # {}

\* C6: the icon path of a launcher handed to create() is a file of the icon
\* store (stated for the launchers that have an icon: never an external
\* local path, never a remote url).
C6_CreatedIconInStore ==
    last.created =>
        \A b \in last.built : ~is_empty(b.icon) => InStore(b.icon)

\* C7: after Edit(L) and Done, the icon file the re-created entry names
\* still exists in the icon store.
C7_EditedIconExists ==
    (last.ev = "Result" /\ last.deleted # {} /\ last.created) =>
        \A b \in last.built :
            InStore(b.icon) => b.icon \in DOMAIN icon_store

\* C8: two distinct persisted launchers never share an icon file.
C8_IconFilesDistinct ==
    \A e1, e2 \in get_webapps :
        (e1.codename # e2.codename /\ InStore(e1.icon)) => e1.icon # e2.icon

\* C9: an icon choice (PushIcon or SetIcon) that stores a file, made when
\* the icon store holds at most one file and only of the owner named by the
\* form's title, leaves exactly one file for that owner: the later choice
\* overwrites the earlier one.
C9_OneFilePerOwner ==
    [][(/\ last'.ev \in {"PushIcon", "SetIcon"}
        /\ icon_store' # icon_store
        /\ ~is_empty(app_title)
        /\ DOMAIN icon_store \subseteq OwnerFiles(app_title, icon_store)
        /\ Cardinality(DOMAIN icon_store) <= 1)
          => Cardinality(OwnerFiles(app_title, icon_store')) = 1]_vars

\* C10: the url handed to WebAppLauncher::new by Done carries a scheme
\* (stated for the non-empty urls).
C10_UrlNormalizedAtDone ==
    last.ev = "Result" =>
        \A b \in last.built : ~is_empty(b.url) => HasScheme(b.url)

\* C11: every find_icons call in flight was given a source url that is
\* non-empty and carries a scheme, and no url is ever prefixed twice.
C11_FindIconsUrlHasScheme ==
    /\ \A t \in Tasks("find") : ~is_empty(t.url) /\ HasScheme(t.url)
    /\ Len(app_url) <= 2

\* C12: with no browser installed at start-up, and after an Edit of a
\* launcher whose stored browser does not resolve, the controller has not
\* aborted.
C12_NoBrowserNoCrash ==
    (is_empty(app_browsers) \/ last.ev = "Edit") => ~panicked

\* C13: every candidate of a batch is consumed by exactly one result event,
\* ErrorLoadingIcon changes nothing of the controller or the stores, and
\* every PushIcon appends its icon to the icons list, whatever the order of
\* arrival.
C13_BatchIsolatesFailures ==
    [][/\ last'.ev \in {"PushIcon", "ErrorLoadingIcon"} =>
            (pending' \subseteq pending /\ Cardinality(pending \ pending') = 1)
       /\ last'.ev = "ErrorLoadingIcon" =>
            (wam' = wam /\ webapps' = webapps /\ icon_store' = icon_store
                /\ ~panicked')
       /\ last'.ev = "PushIcon" =>
            \E t \in pending \ pending' :
                icons' = Append(icons, Icon_new(t.path, t.search))]_vars

\* C14: the failure of a single icon is dropped: after a PushIcon (move_icon
\* of the first-arrived remote icon may fail) and after a SelectIcon (the
\* re-decoding of the saved icon may fail) the controller has not aborted.
C14_IconFailureNeverAborts ==
    last.ev \in {"PushIcon", "SelectIcon"} => ~panicked

\* C15: a Done handled with an invalid launcher is observable: the handler
\* changes the controller state or emits an event (a task), it does not
\* complete exactly as a Done that has nothing to report.
C15_InvalidDoneObservable ==
    [][(last'.ev = "Result" /\ \E b \in last'.built : ~is_valid(b))
          => (wam' # wam \/ pending' # pending)]_vars

\* C16: after Delete(L) the installed list holds no entry of L's codename,
\* and a Delete(L) handled when L's entry and icon file are already absent
\* does not abort and changes neither the stores nor the controller.
C16_DeleteIdempotent ==
    [][last'.ev = "Delete" =>
          \A l \in last'.deleted :
              /\ {e \in webapps' : e.codename = l.codename} = {}
              /\ (Listed(l.codename) = {} /\ l.icon \notin DOMAIN icon_store) =>
                    /\ webapps' = webapps
                    /\ icon_store' = icon_store
                    /\ wam' = wam
                    /\ ~panicked']_vars

\* Delete(L) has just been handled a second time, for a launcher whose icon
\* was a file of the icon store, beside another launcher that is still listed.
C16_Witness ==
    /\ last.ev = "Delete" /\ last.stale
    /\ \A l \in last.deleted :
          /\ Listed(l.codename) = {}
          /\ InStore(l.icon) /\ l.icon \notin DOMAIN icon_store
    /\ get_webapps # {}
    /\ ~panicked

\* C17: Edit(L) followed at once by Done re-creates a launcher equal to L in
\* codename, name, url, category, browser, custom parameters, navbar,
\* incognito and isolated profile, whatever the form held before.
C17_EditThenDoneSameLauncher ==
    [][(last.ev = "Edit" /\ last'.ev = "Result") =>
          \A l \in last'.deleted, b \in last'.built :
              /\ b.codename = l.codename
              /\ b.name = l.name
              /\ b.url = l.url
              /\ b.category = l.category
              /\ b.web_browser = l.web_browser
              /\ b.custom_parameters = l.custom_parameters
              /\ b.navbar = l.navbar
              /\ b.is_incognito = l.is_incognito
              /\ b.isolate_profile = l.isolate_profile]_vars

\* The fixed set of categories a launcher may carry.
SpecCategories ==
    {"Web", "Accessories", "Education", "Games", "Graphics", "Internet",
     "Office", "Programming", "Sound & Video"}

\* C19: the category of the form is always one of the fixed set of
\* categories, and so is the category of every launcher handed to create().
C19_CategoryInFixedSet ==
    /\ app_category \in SpecCategories
    /\ last.created => \A b \in last.built : b.category \in SpecCategories

\* C18: whatever the listing holds, the view of the installed list does not
\* abort and draws exactly one row per Ok launcher, none for an Err item.
C18_ListingToleratesBadItems ==
    last.ev = "view" =>
        /\ ~panicked
        /\ last.rows = get_webapps

\* The icon source a path refers to: for a file of the icon store the origin
\* of its bytes, for any other path the path itself.
Source(path) ==
    IF ~InStore(path) THEN path
    ELSE IF path \in DOMAIN icon_store THEN icon_store[path]
    ELSE <<"missing">>

\* C20: when no task is in flight (and no launcher has been created or is
\* being edited, so that only icon searches and manual selections have acted
\* on the icon), the displayed selected_icon and the app_icon path that Done
\* will persist refer to the same icon source.
C20_SelectedIsPersistedIcon ==
    (pending = {} /\ ~panicked /\ launcher = {} /\ next_code = 1) =>
        {Source(i.path) : i \in selected_icon}
            = (IF is_empty(app_icon) THEN {} ELSE {Source(app_icon)})

\* C21: a Done handled right after Delete(L) creates no persisted entry with
\* L's codename, also when L is the launcher an earlier Edit(L) loaded into
\* the form.
C21_DeletedNotRecreated ==
    [][(last.ev = "Delete" /\ last'.ev = "Result") =>
          \A l \in last.deleted :
              {e \in webapps' : e.codename = l.codename} = {}]_vars

\* C22: the edited-launcher slot changes only when an Edit is handled, and
\* then it holds a launcher: no event resets it. A Done handled with the slot
\* set calls delete() on the stored launcher, builds the new launcher with
\* its codename and hands out no fresh codename; a Done handled with the
\* slot empty (no Edit so far) deletes nothing and builds the launcher with a
\* fresh codename.
C22_EditSlotNeverReset ==
    [][/\ launcher' # launcher => (last'.ev = "Edit" /\ launcher' # {})
       /\ (last'.ev = "Result" /\ launcher # {}) =>
             /\ last'.deleted = launcher
             /\ \A l \in launcher, b \in last'.built : b.codename = l.codename
             /\ next_code' = next_code
       /\ (last'.ev = "Result" /\ launcher = {}) =>
             /\ last'.deleted = {}
             /\ \A b \in last'.built : b.codename = next_code]_vars

\* A Done has just re-created the edited launcher under a changed name while
\* a fresh codename is still available: the slot still holds the launcher as
\* Edit stored it.
C22_Witness ==
    /\ last.ev = "Result" /\ last.created
    /\ launcher # {} /\ last.deleted = launcher
    /\ \A l \in launcher, b \in last.built :
          b.codename = l.codename /\ b.name # l.name
    /\ next_code <= MaxLaunchers

\* C23: a PushIcon handled when the icons list is not empty leaves
\* selected_icon and app_icon as they are; one handled when the list is empty
\* selects its icon; and every PushIcon makes its icon the new last element
\* of the list.
C23_PushIconSelectsFirstOnly ==
    [][last'.ev = "PushIcon" =>
          \E t \in pending \ pending' :
              /\ ~is_empty(icons) =>
                    (selected_icon' = selected_icon /\ app_icon' = app_icon)
              /\ is_empty(icons) =>
                    selected_icon' = {Icon_new(t.path, t.search)}
              /\ Len(icons') = Len(icons) + 1
              /\ icons'[Len(icons')] = Icon_new(t.path, t.search)
              /\ SubSeq(icons', 1, Len(icons)) = icons]_vars

\* The fields of the controller, by name.
Fields ==
    [icons          |-> icons,          app_title      |-> app_title,
     app_url        |-> app_url,        app_icon       |-> app_icon,
     app_parameters |-> app_parameters, app_category   |-> app_category,
     app_browser    |-> app_browser,    app_navbar     |-> app_navbar,
     app_incognito  |-> app_incognito,  app_isolated   |-> app_isolated,
     show_modal     |-> show_modal,     icon_searching |-> icon_searching,
     selected_icon  |-> selected_icon,  app_browsers   |-> app_browsers,
     edit_mode      |-> edit_mode,      launcher       |-> launcher]

\* The field each form-field event is about.
OwnField ==
    [Title           |-> "app_title",      Url               |-> "app_url",
     Arguments       |-> "app_parameters", Category          |-> "app_category",
     Browser         |-> "app_browser",    Navbar            |-> "app_navbar",
     Incognito       |-> "app_incognito",  IsolatedProfile   |-> "app_isolated",
     CustomIconsSearch |-> "icon_searching"]

\* C24: a form-field event (Title, Url, Arguments, Category, Browser, Navbar,
\* Incognito, IsolatedProfile, CustomIconsSearch) leaves every field of the
\* controller other than its own unchanged, leaves the entry store and the
\* icon store unchanged, dispatches no task and does not abort.
C24_FormFieldFrame ==
    [][last'.ev \in DOMAIN OwnField =>
          /\ \A f \in DOMAIN Fields \ {OwnField[last'.ev]} :
                Fields'[f] = Fields[f]
          /\ webapps' = webapps
          /\ icon_store' = icon_store
          /\ pending' = pending
          /\ ~panicked']_vars

\* Every form-field event has acted, the search field last, beside entries
\* of the store: each field holds what its own event gave it.
C24_Witness ==
    /\ last.ev = "CustomIconsSearch" /\ ~is_empty(icon_searching)
    /\ ~is_empty(app_title) /\ ~is_empty(app_url) /\ ~is_empty(app_parameters)
    /\ app_category # "Web" /\ app_browser = "chromium"
    /\ app_navbar /\ app_incognito /\ ~app_isolated
    /\ webapps = StoredEntries

====
